---- MODULE Spec2Model ----
(***************************************************************************)
(* Royal Escape: the breadth-first solver of the sliding-block puzzle      *)
(* (services/solver: encodeState, isSolved, canMove, findSolution) on the  *)
(* 4x5 grid of constants.ts.                                               *)
(*                                                                         *)
(* Block indices are 0-based as in the source; TLA+ sequences are 1-based, *)
(* so block i of the source is blocks[i + 1] here.                         *)
(***************************************************************************)
EXTENDS Integers, Sequences, FiniteSets, TLC

VARIABLES initialBlocks, maxDepth, pc, queue, visited, head, returned, result,
          exceeded, heap, callerBlocks, call2, ui

vars == <<initialBlocks, maxDepth, pc, queue, visited, head, returned, result,
          exceeded, heap, callerBlocks, call2, ui>>

\* The objects of the program, for the specification that follows object
\* identity (SpecHeap): heap.objs[a] is the Block object at address a and
\* heap.lists[l] the array at address l, a list of Block addresses.
\* callerBlocks is the address of the array the caller passes.  The other
\* specifications work on the values of the blocks and keep no objects.
NoHeap == [objs |-> <<>>, lists |-> <<>>]

\* call2 holds the locals of a second findSolution call, for the
\* specification of two calls (SpecTwoCalls); ui holds the state of the App
\* and GameBoard components, for the specification of the game (SpecGame).
\* The other specifications follow one call and keep neither.
NoCall == [pc |-> "none"]

NoUi == [screen |-> "none"]

(***************************************************************************)
(* constants.ts and types.ts                                               *)
(***************************************************************************)
GRID_WIDTH == 4

GRID_HEIGHT == 5

MAX_ITERATIONS == 50000

DEFAULT_MAX_DEPTH == 200

WIN_COORDS == [x |-> 1, y |-> 3]

BlockType == {"KING", "VERTICAL", "HORIZONTAL", "PAWN"}

Direction == {"UP", "DOWN", "LEFT", "RIGHT"}

\* constants.ts createBlock: the dimensions of a piece follow from its kind.
createBlock(type, x, y) ==
  [type |-> type, x |-> x, y |-> y,
   width |-> IF type = "KING" \/ type = "HORIZONTAL" THEN 2 ELSE 1,
   height |-> IF type = "KING" \/ type = "VERTICAL" THEN 2 ELSE 1]

(***************************************************************************)
(* solver: encodeState                                                     *)
(***************************************************************************)
\* variant: every piece is written with the same code
TypeCodeOccupied(type) == 1

\* variant: Vertical and Horizontal pieces have one code
TypeCodeMerged(type) ==
  IF type = "KING" THEN 1
  ELSE IF type = "VERTICAL" THEN 2
  ELSE IF type = "HORIZONTAL" THEN 2
  ELSE IF type = "PAWN" THEN 4
  ELSE 0

\* the integer code of a kind (0 is the empty cell)
TypeCode(type) ==
  IF type = "KING" THEN 1
  ELSE IF type = "VERTICAL" THEN 2
  ELSE IF type = "HORIZONTAL" THEN 3
  ELSE IF type = "PAWN" THEN 4
  ELSE 0

\* grid[idx] = code: a write outside the Int8Array is dropped
WriteCell(grid, idx, code) ==
  IF idx >= 0 /\ idx < GRID_WIDTH * GRID_HEIGHT
  THEN [grid EXCEPT ![idx + 1] = code]
  ELSE grid

\* The dy and dx loops of one block, from its n-th cell on: cell n has
\* dy = n \div b.width and dx = n % b.width.
RECURSIVE WriteBlock(_, _, _)
WriteBlock(grid, b, n) ==
  IF n >= b.width * b.height THEN grid
  ELSE WriteBlock(WriteCell(grid,
                            (b.y + (n \div b.width)) * GRID_WIDTH
                              + (b.x + (n % b.width)),
                            TypeCode(b.type)),
                  b, n + 1)

\* for (const b of blocks), from the j-th block on
RECURSIVE WriteBlocks(_, _, _)
WriteBlocks(grid, blocks, j) ==
  IF j > Len(blocks) THEN grid
  ELSE WriteBlocks(WriteBlock(grid, blocks[j], 0), blocks, j + 1)

\* variant: a cell holds the list index of the piece on it, not its kind
encodeStateByIndex(blocks) ==
  [c \in 1..(GRID_WIDTH * GRID_HEIGHT) |->
     LET on == {j \in 1..Len(blocks) :
                  \E dy \in 0..(blocks[j].height - 1),
                     dx \in 0..(blocks[j].width - 1) :
                    (blocks[j].y + dy) * GRID_WIDTH + (blocks[j].x + dx)
                      = c - 1}
     IN  IF on = {} THEN 0 ELSE CHOOSE j \in on : \A l \in on : l <= j]

\* The Int8Array of GRID_WIDTH * GRID_HEIGHT codes, filled with 0, written
\* block by block in list order and joined cell by cell.  Every code is
\* one digit, so the joined string is the sequence of the codes.
encodeState(blocks) ==
  WriteBlocks([c \in 1..(GRID_WIDTH * GRID_HEIGHT) |-> 0], blocks, 1)

(***************************************************************************)
(* solver: isSolved                                                        *)
(***************************************************************************)
KingPositions(blocks) == {j \in 1..Len(blocks) : blocks[j].type = "KING"}

SetMin(S) == CHOOSE m \in S : \A n \in S : m <= n

\* variant: blocks[0] is taken for the King
isSolvedFirstBlock(blocks) ==
  /\ Len(blocks) > 0
  /\ blocks[1].type = "KING" /\ blocks[1].x = 1 /\ blocks[1].y = 3

\* variant: a board without a King counts as solved
isSolvedNoKingSolved(blocks) ==
  IF KingPositions(blocks) = {} THEN TRUE
  ELSE LET k == blocks[SetMin(KingPositions(blocks))]
       IN  k.x = 1 /\ k.y = 3

\* blocks.find(b => b.type === KING): the first King of the list
isSolved(blocks) ==
  IF KingPositions(blocks) = {} THEN FALSE
  ELSE LET k == blocks[SetMin(KingPositions(blocks))]
       IN  k.x = 1 /\ k.y = 3

(***************************************************************************)
(* solver: canMove                                                         *)
(***************************************************************************)
DeltaX(dir) == IF dir = "LEFT" THEN -1 ELSE IF dir = "RIGHT" THEN 1 ELSE 0

\* variant: UP and DOWN exchanged
DeltaYFlipped(dir) == IF dir = "UP" THEN 1 ELSE IF dir = "DOWN" THEN -1 ELSE 0

DeltaY(dir) == IF dir = "UP" THEN -1 ELSE IF dir = "DOWN" THEN 1 ELSE 0

\* variant: no boundary check
canMoveNoBounds(movingBlockIndex, dir, allBlocks) ==
  LET b  == allBlocks[movingBlockIndex + 1]
      nx == b.x + DeltaX(dir)
      ny == b.y + DeltaY(dir)
  IN  \A i \in 0..(Len(allBlocks) - 1) :
        \/ i = movingBlockIndex
        \/ LET other == allBlocks[i + 1]
           IN  ~(/\ nx < other.x + other.width
                 /\ nx + b.width > other.x
                 /\ ny < other.y + other.height
                 /\ ny + b.height > other.y)

\* variant: no collision loop
canMoveNoCollision(movingBlockIndex, dir, allBlocks) ==
  LET b  == allBlocks[movingBlockIndex + 1]
      nx == b.x + DeltaX(dir)
      ny == b.y + DeltaY(dir)
  IN  ~(nx < 0 \/ ny < 0 \/ nx + b.width > GRID_WIDTH
        \/ ny + b.height > GRID_HEIGHT)

\* variant: the moving block is not skipped in the collision loop
canMoveSelfBlocks(movingBlockIndex, dir, allBlocks) ==
  LET b  == allBlocks[movingBlockIndex + 1]
      nx == b.x + DeltaX(dir)
      ny == b.y + DeltaY(dir)
  IN  IF nx < 0 \/ ny < 0 \/ nx + b.width > GRID_WIDTH
         \/ ny + b.height > GRID_HEIGHT
      THEN FALSE
      ELSE \A i \in 0..(Len(allBlocks) - 1) :
             LET other == allBlocks[i + 1]
             IN  ~(/\ nx < other.x + other.width
                   /\ nx + b.width > other.x
                   /\ ny < other.y + other.height
                   /\ ny + b.height > other.y)

canMove(movingBlockIndex, dir, allBlocks) ==
  LET b  == allBlocks[movingBlockIndex + 1]
      nx == b.x + DeltaX(dir)
      ny == b.y + DeltaY(dir)
  IN  IF nx < 0 \/ ny < 0 \/ nx + b.width > GRID_WIDTH
         \/ ny + b.height > GRID_HEIGHT
      THEN FALSE
      ELSE \A i \in 0..(Len(allBlocks) - 1) :
             \/ i = movingBlockIndex
             \/ LET other == allBlocks[i + 1]
                IN  ~(/\ nx < other.x + other.width
                      /\ nx + b.width > other.x
                      /\ ny < other.y + other.height
                      /\ ny + b.height > other.y)

(***************************************************************************)
(* solver: findSolution                                                    *)
(***************************************************************************)
\* The visited Set<string> is a hash table: a key lives in the bucket its
\* digits hash to.  NBuckets is the number of buckets of the table; the
\* contents of the set do not depend on it.
NBuckets == 251

RECURSIVE KeyHash(_, _, _)
KeyHash(key, c, acc) ==
  IF c > Len(key) THEN acc
  ELSE KeyHash(key, c + 1, (acc * 5 + key[c]) % NBuckets)

\* the bucket of a key; the key is worked out once, then hashed
BucketOf(key) == CHOOSE h \in {KeyHash(k, 1, 0) : k \in {key}} : TRUE

\* new Set<string>()
NewSet == [b \in 0..(NBuckets - 1) |-> {}]

\* set.has(key)
SetHas(set, key) == key \in set[BucketOf(key)]

\* variant: add forgets the key
SetAddNothing(set, key) == set

\* set.add(key)
SetAdd(set, key) == [set EXCEPT ![BucketOf(key)] = @ \cup {key}]

\* the strings in the set
Elements(set) == UNION {set[b] : b \in DOMAIN set}

\* variant: the directions enumerated in the opposite order
dirsReversed == <<"RIGHT", "LEFT", "DOWN", "UP">>

\* the enumeration order of the directions
dirs == <<"UP", "DOWN", "LEFT", "RIGHT">>

\* variant: the block is shifted by two cells
ApplyMoveTwice(blocks, i, dir) ==
  [blocks EXCEPT ![i + 1] =
     [@ EXCEPT !.x = @ + 2 * DeltaX(dir), !.y = @ + 2 * DeltaY(dir)]]

\* clone the blocks and shift block i by one cell
ApplyMove(blocks, i, dir) ==
  [blocks EXCEPT ![i + 1] =
     [@ EXCEPT !.x = @ + DeltaX(dir), !.y = @ + DeltaY(dir)]]

\* the pairs (i, dir) in the order of the two nested for-loops
AllMoves(n) ==
  [k \in 1..(4 * n) |->
     [blockIndex |-> (k - 1) \div 4, direction |-> dirs[((k - 1) % 4) + 1]]]

\* variant: RIGHT is never tried
LegalMovesNoRight(blocks) ==
  SelectSeq(AllMoves(Len(blocks)),
            LAMBDA m : m.direction # "RIGHT"
                       /\ canMove(m.blockIndex, m.direction, blocks))

\* The pairs for which the loop body passes if (canMove(i, dir,
\* current.blocks)); current.blocks is not written by the loops.
LegalMoves(blocks) ==
  SelectSeq(AllMoves(Len(blocks)),
            LAMBDA m : canMove(m.blockIndex, m.direction, blocks))

\* variant: a new node is put at the front of the queue
RECURSIVE ExpandFromUnshift(_, _, _, _, _, _)
ExpandFromUnshift(current, moves, j, q, vis, depth) ==
  IF j > Len(moves)
  THEN [queue |-> q, visited |-> vis, found |-> FALSE, path |-> <<>>]
  ELSE
    LET i         == moves[j].blockIndex
        dir       == moves[j].direction
        newBlocks == ApplyMove(current.blocks, i, dir)
        hash      == encodeState(newBlocks)
        newPath   == Append(current.path,
                            [blockIndex |-> i, direction |-> dir])
    IN  IF SetHas(vis, hash)
        THEN ExpandFromUnshift(current, moves, j + 1, q, vis, depth)
        ELSE IF isSolved(newBlocks)
        THEN [queue |-> q, visited |-> vis, found |-> TRUE,
              path |-> newPath]
        ELSE IF Len(newPath) < depth
        THEN ExpandFromUnshift(current, moves, j + 1,
                               <<[blocks |-> newBlocks, path |-> newPath]>> \o q,
                               SetAdd(vis, hash), depth)
        ELSE ExpandFromUnshift(current, moves, j + 1, q, vis, depth)

\* variant: the new move is put in front of the parent's path
RECURSIVE ExpandFromPrepend(_, _, _, _, _, _)
ExpandFromPrepend(current, moves, j, q, vis, depth) ==
  IF j > Len(moves)
  THEN [queue |-> q, visited |-> vis, found |-> FALSE, path |-> <<>>]
  ELSE
    LET i         == moves[j].blockIndex
        dir       == moves[j].direction
        newBlocks == ApplyMove(current.blocks, i, dir)
        hash      == encodeState(newBlocks)
        newPath   == <<[blockIndex |-> i, direction |-> dir]>>
                       \o current.path
    IN  IF SetHas(vis, hash)
        THEN ExpandFromPrepend(current, moves, j + 1, q, vis, depth)
        ELSE IF isSolved(newBlocks)
        THEN [queue |-> q, visited |-> vis, found |-> TRUE,
              path |-> newPath]
        ELSE IF Len(newPath) < depth
        THEN ExpandFromPrepend(current, moves, j + 1,
                               Append(q, [blocks |-> newBlocks,
                                          path |-> newPath]),
                               SetAdd(vis, hash), depth)
        ELSE ExpandFromPrepend(current, moves, j + 1, q, vis, depth)

\* The body of the two nested for-loops of one dequeued node, for the j-th
\* legal pair and the later ones.  q and vis are the queue and the visited
\* set so far; the loops stop at the first solved successor.
RECURSIVE ExpandFrom(_, _, _, _, _, _)
ExpandFrom(current, moves, j, q, vis, depth) ==
  IF j > Len(moves)
  THEN [queue |-> q, visited |-> vis, found |-> FALSE, path |-> <<>>]
  ELSE
    LET i         == moves[j].blockIndex
        dir       == moves[j].direction
        newBlocks == ApplyMove(current.blocks, i, dir)
        hash      == encodeState(newBlocks)
        newPath   == Append(current.path,
                            [blockIndex |-> i, direction |-> dir])
    IN  IF SetHas(vis, hash)
        THEN ExpandFrom(current, moves, j + 1, q, vis, depth)
        ELSE IF isSolved(newBlocks)
        THEN [queue |-> q, visited |-> vis, found |-> TRUE,
              path |-> newPath]
        ELSE IF Len(newPath) < depth
        THEN ExpandFrom(current, moves, j + 1,
                        Append(q, [blocks |-> newBlocks, path |-> newPath]),
                        SetAdd(vis, hash), depth)
        ELSE ExpandFrom(current, moves, j + 1, q, vis, depth)

\* variant: a tenth of the iteration budget
WhileStepSmallBudget(st, depth) ==
  IF st.head >= Len(st.queue)
  THEN [st EXCEPT !.pc = "done", !.returned = "null"]
  ELSE IF st.head > MAX_ITERATIONS \div 10
  THEN [st EXCEPT !.pc = "done", !.returned = "null", !.exceeded = TRUE]
  ELSE LET current == st.queue[st.head + 1]
           r == ExpandFrom(current, LegalMoves(current.blocks), 1, st.queue,
                           st.visited, depth)
       IN  IF r.found
           THEN [st EXCEPT !.head = @ + 1, !.queue = r.queue,
                           !.visited = r.visited, !.pc = "done",
                           !.returned = "list", !.result = r.path]
           ELSE [st EXCEPT !.head = @ + 1, !.queue = r.queue,
                           !.visited = r.visited]

\* One evaluation of the while condition and, when it holds, one run of
\* the loop body, on the locals st of findSolution.
\* variant: the dequeue does not advance head
WhileStepNoAdvance(st, depth) ==
  IF st.head >= Len(st.queue)
  THEN [st EXCEPT !.pc = "done", !.returned = "null"]
  ELSE IF st.head > MAX_ITERATIONS
  THEN [st EXCEPT !.pc = "done", !.returned = "null", !.exceeded = TRUE]
  ELSE LET current == st.queue[st.head + 1]
           r == ExpandFrom(current, LegalMoves(current.blocks), 1, st.queue,
                           st.visited, depth)
       IN  IF r.found
           THEN [st EXCEPT !.queue = r.queue,
                           !.visited = r.visited, !.pc = "done",
                           !.returned = "list", !.result = r.path]
           ELSE [st EXCEPT !.queue = r.queue, !.visited = r.visited]

WhileStep(st, depth) ==
  IF st.head >= Len(st.queue)
  THEN [st EXCEPT !.pc = "done", !.returned = "null"]
  ELSE IF st.head > MAX_ITERATIONS
  THEN [st EXCEPT !.pc = "done", !.returned = "null", !.exceeded = TRUE]
  ELSE LET current == st.queue[st.head + 1]
           r == ExpandFrom(current, LegalMoves(current.blocks), 1, st.queue,
                           st.visited, depth)
       IN  IF r.found
           THEN [st EXCEPT !.head = @ + 1, !.queue = r.queue,
                           !.visited = r.visited, !.pc = "done",
                           !.returned = "list", !.result = r.path]
           ELSE [st EXCEPT !.head = @ + 1, !.queue = r.queue,
                           !.visited = r.visited]

\* Up to n turns of the while loop, one after the other: the first half of
\* the turns, then the rest on the locals the first half leaves.
RECURSIVE RunLoop(_, _, _)
RunLoop(st, depth, n) ==
  IF n = 0 \/ st.pc = "done" THEN st
  ELSE IF n = 1 THEN WhileStep(st, depth)
  ELSE RunLoop(RunLoop(st, depth, n \div 2), depth, n - (n \div 2))

(***************************************************************************)
(* The boards findSolution is called on                                    *)
(***************************************************************************)
\* the cells (x, y) a block covers
Cells(b) ==
  {<<b.x + dx, b.y + dy>> : dx \in 0..(b.width - 1), dy \in 0..(b.height - 1)}

InGrid(b) ==
  b.x >= 0 /\ b.y >= 0 /\ b.x + b.width <= GRID_WIDTH
  /\ b.y + b.height <= GRID_HEIGHT

\* a valid board: every piece has the dimensions of its kind, lies in the
\* grid, and no two pieces share a cell
ValidBoard(blocks) ==
  /\ \A j \in 1..Len(blocks) :
       /\ blocks[j] = createBlock(blocks[j].type, blocks[j].x, blocks[j].y)
       /\ InGrid(blocks[j])
  /\ \A j, l \in 1..Len(blocks) :
       j # l => Cells(blocks[j]) \cap Cells(blocks[l]) = {}

\* every way to put the pieces of the kinds list, in this order, on the grid
Placements(kinds) ==
  LET n    == Len(kinds)
      Pos  == (0..(GRID_WIDTH - 1)) \X (0..(GRID_HEIGHT - 1))
      Mk(f) == [j \in 1..n |-> createBlock(kinds[j], f[j][1], f[j][2])]
  IN  {Mk(f) : f \in {g \in [1..n -> Pos] : ValidBoard(Mk(g))}}

\* a board written as <<kind, x, y>> triples
Board(triples) ==
  [j \in 1..Len(triples) |->
     createBlock(triples[j][1], triples[j][2], triples[j][3])]

\* the piece lists whose every placement is an input
KindLists ==
  { <<"KING">>, <<"PAWN">>,
    <<"KING", "PAWN">>, <<"PAWN", "KING">>,
    <<"VERTICAL", "KING">>, <<"KING", "HORIZONTAL">> }

\* boards met while playing LEVELS.HARD and LEVELS.EASY towards the exit
\* (5, 9 and 13 moves before the end of the HARD solution, 3 before the end
\* of the EASY one), a jammed board, and boards with two Pawns
Fixtures ==
  { Board(<< <<"KING", 0, 3>>, <<"VERTICAL", 3, 0>>, <<"VERTICAL", 2, 0>>,
             <<"VERTICAL", 1, 0>>, <<"VERTICAL", 0, 0>>,
             <<"HORIZONTAL", 2, 3>>, <<"PAWN", 0, 2>>, <<"PAWN", 2, 4>>,
             <<"PAWN", 3, 4>>, <<"PAWN", 2, 2>> >>),
    Board(<< <<"KING", 0, 2>>, <<"VERTICAL", 3, 0>>, <<"VERTICAL", 2, 0>>,
             <<"VERTICAL", 1, 0>>, <<"VERTICAL", 0, 0>>,
             <<"HORIZONTAL", 2, 3>>, <<"PAWN", 2, 2>>, <<"PAWN", 2, 4>>,
             <<"PAWN", 3, 4>>, <<"PAWN", 3, 2>> >>),
    Board(<< <<"KING", 0, 2>>, <<"VERTICAL", 3, 0>>, <<"VERTICAL", 2, 0>>,
             <<"VERTICAL", 1, 0>>, <<"VERTICAL", 0, 0>>,
             <<"HORIZONTAL", 2, 3>>, <<"PAWN", 2, 2>>, <<"PAWN", 0, 4>>,
             <<"PAWN", 1, 4>>, <<"PAWN", 3, 2>> >>),
    Board(<< <<"KING", 0, 3>>, <<"VERTICAL", 0, 0>>, <<"VERTICAL", 3, 0>>,
             <<"HORIZONTAL", 1, 0>>, <<"PAWN", 2, 4>>, <<"PAWN", 2, 1>>,
             <<"PAWN", 3, 4>>, <<"PAWN", 1, 2>>, <<"HORIZONTAL", 2, 2>> >>),
    Board(<< <<"KING", 0, 0>>, <<"VERTICAL", 2, 0>>, <<"VERTICAL", 3, 0>>,
             <<"HORIZONTAL", 0, 2>>, <<"HORIZONTAL", 2, 2>>,
             <<"HORIZONTAL", 0, 3>>, <<"HORIZONTAL", 2, 3>>,
             <<"HORIZONTAL", 0, 4>> >>),
    Board(<< <<"PAWN", 1, 4>>, <<"KING", 1, 2>>, <<"PAWN", 2, 4>> >>),
    Board(<< <<"PAWN", 0, 2>>, <<"KING", 1, 2>>, <<"PAWN", 3, 2>> >>),
    Board(<< <<"VERTICAL", 0, 3>>, <<"PAWN", 1, 4>>, <<"PAWN", 2, 4>>,
             <<"KING", 1, 2>>, <<"VERTICAL", 3, 3>> >>) }

\* boards that break the precondition: two pieces on the same cells, a piece
\* outside the grid, a piece without the dimensions of its kind
InvalidFixtures ==
  { Board(<< <<"KING", 1, 3>>, <<"PAWN", 1, 3>> >>),
    Board(<< <<"KING", 0, 0>>, <<"PAWN", 0, 0>> >>),
    Board(<< <<"PAWN", 4, 0>>, <<"KING", 1, 3>> >>),
    Board(<< <<"KING", 1, 2>>, <<"PAWN", 3, 5>> >>),
    << [type |-> "PAWN", x |-> 0, y |-> 0, width |-> 2, height |-> 1],
       [type |-> "KING", x |-> 1, y |-> 3, width |-> 1, height |-> 1] >>,
    << [type |-> "KING", x |-> 0, y |-> 3, width |-> 2, height |-> 2],
       [type |-> "PAWN", x |-> 3, y |-> 3, width |-> 1, height |-> 2] >> }

\* boards without a King (the empty list, two Pawns that can change
\* places) and boards with two Kings
OtherFixtures ==
  { <<>>,
    Board(<< <<"PAWN", 0, 0>>, <<"PAWN", 1, 0>> >>),
    Board(<< <<"KING", 0, 0>>, <<"KING", 1, 3>> >>),
    Board(<< <<"KING", 0, 0>>, <<"KING", 2, 3>> >>),
    Board(<< <<"KING", 1, 2>>, <<"KING", 2, 0>> >>) }

\* the largest explicit maxDepth argument tried besides the default
MaxDepthArg == 3

InputBoards ==
  UNION {Placements(kinds) : kinds \in KindLists}
    \cup Fixtures \cup InvalidFixtures \cup OtherFixtures

InputDepths == 0..MaxDepthArg \cup {DEFAULT_MAX_DEPTH}

Init ==
  /\ initialBlocks \in InputBoards
  /\ maxDepth \in InputDepths
  /\ pc = "start"
  /\ queue = <<>>
  /\ visited = NewSet
  /\ head = 0
  /\ returned = "pending"
  /\ result = <<>>
  /\ exceeded = FALSE
  /\ heap = NoHeap
  /\ callerBlocks = 0
  /\ call2 = NoCall
  /\ ui = NoUi

\* findSolution up to the loop: copy the blocks, return [] on a solved
\* board, otherwise queue the root and mark its key visited
Start ==
  /\ pc = "start"
  /\ LET startBlocks ==
           [j \in 1..Len(initialBlocks) |->
              [type |-> initialBlocks[j].type, x |-> initialBlocks[j].x,
               y |-> initialBlocks[j].y, width |-> initialBlocks[j].width,
               height |-> initialBlocks[j].height]]
         startHash == encodeState(startBlocks)
     IN  IF isSolved(startBlocks)
         THEN /\ pc' = "done"
              /\ returned' = "list"
              /\ result' = <<>>
              /\ UNCHANGED <<queue, visited, head>>
         ELSE /\ pc' = "loop"
              /\ queue' = <<[blocks |-> startBlocks, path |-> <<>>]>>
              /\ visited' = SetAdd(NewSet, startHash)
              /\ head' = 0
              /\ UNCHANGED <<returned, result>>
  /\ UNCHANGED <<initialBlocks, maxDepth, exceeded, heap, callerBlocks, call2, ui>>

\* the locals of findSolution
Locals ==
  [queue |-> queue, visited |-> visited, head |-> head, pc |-> pc,
   returned |-> returned, result |-> result, exceeded |-> exceeded]

SetLocals(st) ==
  /\ queue' = st.queue
  /\ visited' = st.visited
  /\ head' = st.head
  /\ pc' = st.pc
  /\ returned' = st.returned
  /\ result' = st.result
  /\ exceeded' = st.exceeded

\* one turn of while (head < queue.length), the final failing test included
Iterate ==
  /\ pc = "loop"
  /\ \E st \in {WhileStep(Locals, maxDepth)} : SetLocals(st)
  /\ UNCHANGED <<initialBlocks, maxDepth, heap, callerBlocks, call2, ui>>

Next == Start \/ Iterate

Spec == Init /\ [][Next]_vars

\* findSolution is a sequential function that runs to its return: a turn of
\* the loop that can be taken is taken.
\* The calls followed to their return: every board of one King and of one
\* Pawn, the empty list, a King shut in by a Vertical, two Pawns, and a
\* board whose two pieces overlap; maxDepth 0 to 2 and the default.
FairBoards ==
  Placements(<<"KING">>) \cup Placements(<<"PAWN">>)
    \cup { <<>>,
           Board(<< <<"PAWN", 0, 0>>, <<"PAWN", 1, 0>> >>),
           Board(<< <<"KING", 1, 3>>, <<"PAWN", 1, 3>> >>),
           Board(<< <<"VERTICAL", 1, 3>>, <<"KING", 1, 1>> >>) }

InitFair ==
  /\ initialBlocks \in FairBoards
  /\ maxDepth \in {0, 1, 2, DEFAULT_MAX_DEPTH}
  /\ pc = "start"
  /\ queue = <<>>
  /\ visited = NewSet
  /\ head = 0
  /\ returned = "pending"
  /\ result = <<>>
  /\ exceeded = FALSE
  /\ heap = NoHeap
  /\ callerBlocks = 0
  /\ call2 = NoCall
  /\ ui = NoUi

SpecFair == InitFair /\ [][Next]_vars /\ WF_vars(Next)

\* The calls whose root key is compared with the keys of other boards:
\* every valid board of two pieces of one kind, and boards of four pieces
\* that fill a block of the grid.  maxDepth is 0: the search stops after the
\* root.
KeyBoards ==
  Placements(<<"VERTICAL", "VERTICAL">>)
    \cup Placements(<<"HORIZONTAL", "HORIZONTAL">>)
    \cup Placements(<<"KING", "KING">>)
    \cup Placements(<<"PAWN", "PAWN">>)
    \cup { Board(<< <<"VERTICAL", 0, 0>>, <<"VERTICAL", 1, 0>>,
                    <<"VERTICAL", 0, 2>>, <<"VERTICAL", 1, 2>> >>),
           Board(<< <<"VERTICAL", 1, 2>>, <<"VERTICAL", 0, 2>>,
                    <<"VERTICAL", 1, 0>>, <<"VERTICAL", 0, 0>> >>),
           Board(<< <<"HORIZONTAL", 0, 0>>, <<"HORIZONTAL", 2, 0>>,
                    <<"HORIZONTAL", 0, 1>>, <<"HORIZONTAL", 2, 1>> >>),
           Board(<< <<"PAWN", 0, 0>>, <<"PAWN", 1, 0>>,
                    <<"PAWN", 0, 1>>, <<"PAWN", 1, 1>> >>),
           Board(<< <<"KING", 0, 0>> >>),
           Board(<< <<"HORIZONTAL", 0, 0>>, <<"HORIZONTAL", 0, 1>>,
                    <<"VERTICAL", 2, 0>>, <<"VERTICAL", 3, 0>> >>),
           Board(<< <<"VERTICAL", 0, 0>>, <<"VERTICAL", 1, 0>>,
                    <<"HORIZONTAL", 2, 0>>, <<"HORIZONTAL", 2, 1>> >>) }

InitKeys ==
  /\ initialBlocks \in KeyBoards
  /\ maxDepth = 0
  /\ pc = "start"
  /\ queue = <<>>
  /\ visited = NewSet
  /\ head = 0
  /\ returned = "pending"
  /\ result = <<>>
  /\ exceeded = FALSE
  /\ heap = NoHeap
  /\ callerBlocks = 0
  /\ call2 = NoCall
  /\ ui = NoUi

SpecKeys == InitKeys /\ [][Next]_vars

(***************************************************************************)
(* The levels of constants.ts.  A step of this specification is the whole  *)
(* while loop of one call, up to its return; the queue and the visited set *)
(* of the finished call are not kept in the state.                         *)
(***************************************************************************)
LEVELS ==
  [EASY |->
     Board(<< <<"KING", 1, 1>>, <<"VERTICAL", 0, 0>>, <<"VERTICAL", 3, 0>>,
              <<"HORIZONTAL", 1, 0>>, <<"PAWN", 0, 2>>, <<"PAWN", 3, 2>>,
              <<"PAWN", 0, 3>>, <<"PAWN", 3, 3>>, <<"HORIZONTAL", 1, 3>> >>),
   MEDIUM |->
     Board(<< <<"KING", 1, 0>>, <<"VERTICAL", 0, 0>>, <<"VERTICAL", 3, 0>>,
              <<"HORIZONTAL", 1, 2>>, <<"VERTICAL", 0, 2>>,
              <<"VERTICAL", 3, 2>>, <<"PAWN", 1, 3>>, <<"PAWN", 2, 3>>,
              <<"PAWN", 0, 4>>, <<"PAWN", 3, 4>> >>),
   HARD |->
     Board(<< <<"KING", 1, 0>>, <<"VERTICAL", 0, 0>>, <<"VERTICAL", 3, 0>>,
              <<"VERTICAL", 0, 2>>, <<"VERTICAL", 3, 2>>,
              <<"HORIZONTAL", 1, 2>>, <<"PAWN", 1, 3>>, <<"PAWN", 2, 3>>,
              <<"PAWN", 0, 4>>, <<"PAWN", 3, 4>> >>)]

\* the largest maxDepth argument the three levels are tried with besides
\* the default
LevelDepth == 12

\* every level with a small maxDepth, and the classic layout (LEVELS.HARD)
\* with the default maxDepth
InitClassic ==
  /\ initialBlocks \in {LEVELS.EASY, LEVELS.MEDIUM, LEVELS.HARD}
  /\ maxDepth \in 0..LevelDepth \cup {DEFAULT_MAX_DEPTH}
  /\ maxDepth = DEFAULT_MAX_DEPTH => initialBlocks = LEVELS.HARD
  /\ pc = "start"
  /\ queue = <<>>
  /\ visited = NewSet
  /\ head = 0
  /\ returned = "pending"
  /\ result = <<>>
  /\ exceeded = FALSE
  /\ heap = NoHeap
  /\ callerBlocks = 0
  /\ call2 = NoCall
  /\ ui = NoUi

\* The while loop to its return: at most MAX_ITERATIONS + 1 runs of the
\* body and one more test.
Solve ==
  /\ pc = "loop"
  /\ \E st \in {RunLoop(Locals, maxDepth, MAX_ITERATIONS + 2)} :
       SetLocals([st EXCEPT !.queue = <<>>, !.visited = NewSet])
  /\ UNCHANGED <<initialBlocks, maxDepth, heap, callerBlocks, call2, ui>>

NextClassic == Start \/ Solve

SpecClassic == InitClassic /\ [][NextClassic]_vars

(***************************************************************************)
(* A call whose search does not end within the iteration budget: a board   *)
(* without a King (never solved) with more than MAX_ITERATIONS keys in     *)
(* reach, beside the levels with a small maxDepth.                         *)
(***************************************************************************)
OpenBoard ==
  Board(<< <<"HORIZONTAL", 0, 0>>, <<"HORIZONTAL", 2, 0>>, <<"PAWN", 0, 1>>,
           <<"PAWN", 1, 1>>, <<"PAWN", 2, 1>> >>)

InitBudget ==
  /\ initialBlocks \in {LEVELS.EASY, LEVELS.MEDIUM, LEVELS.HARD, OpenBoard}
  /\ maxDepth \in 0..LevelDepth \cup {DEFAULT_MAX_DEPTH}
  /\ (maxDepth = DEFAULT_MAX_DEPTH) = (initialBlocks = OpenBoard)
  /\ pc = "start"
  /\ queue = <<>>
  /\ visited = NewSet
  /\ head = 0
  /\ returned = "pending"
  /\ result = <<>>
  /\ exceeded = FALSE
  /\ heap = NoHeap
  /\ callerBlocks = 0
  /\ call2 = NoCall
  /\ ui = NoUi

SpecBudget == InitBudget /\ [][NextClassic]_vars

(***************************************************************************)
(* findSolution on objects.  Every Block is an object of the heap and      *)
(* every blocks array a list of object addresses, so that a write through  *)
(* newBlocks[i] is seen by every array that holds the same object.  The    *)
(* code never writes an element of a blocks array after map has built it;  *)
(* objects and arrays that are no longer referenced stay in the heap.      *)
(***************************************************************************)
\* the blocks of the array at address list, as values
Deref(h, list) ==
  [j \in 1..Len(h.lists[list]) |-> h.objs[h.lists[list][j]]]

\* variant: the array itself instead of a copy
CloneBlocksAlias(h, list) == [heap |-> h, ref |-> list]

\* blocks.map(b => ({...b})): a new array of new objects with the fields of
\* the old ones, in the same order
CloneBlocks(h, list) ==
  LET old  == h.lists[list]
      base == Len(h.objs)
      copy(b) == [type |-> b.type, x |-> b.x, y |-> b.y, width |-> b.width,
                  height |-> b.height]
  IN  [heap |-> [objs  |-> h.objs \o [j \in 1..Len(old) |-> copy(h.objs[old[j]])],
                 lists |-> Append(h.lists, [j \in 1..Len(old) |-> base + j])],
       ref |-> Len(h.lists) + 1]

\* variant: the write goes to block i of the dequeued state
MoveTargetParent(h, currentBlocks, newBlocks, i) == h.lists[currentBlocks][i + 1]

\* the object newBlocks[i] the move is written to
MoveTarget(h, currentBlocks, newBlocks, i) == h.lists[newBlocks][i + 1]

\* newBlocks[i].y--, .y++, .x--, .x++ on the object at address a
WriteMove(h, a, dir) ==
  [h EXCEPT !.objs[a] =
     [@ EXCEPT !.x = @ + DeltaX(dir), !.y = @ + DeltaY(dir)]]

\* The body of the two nested for-loops for the pair m = (i, dir); r holds
\* the heap, the queue and the visited set so far.
VisitPair(current, m, r, depth) ==
  IF r.found \/ ~canMove(m.blockIndex, m.direction,
                         Deref(r.heap, current.blocks))
  THEN r
  ELSE
    LET i       == m.blockIndex
        dir     == m.direction
        cl      == CloneBlocks(r.heap, current.blocks)
        newBlocks == cl.ref
        h       == WriteMove(cl.heap,
                             MoveTarget(cl.heap, current.blocks, newBlocks, i),
                             dir)
        hash    == encodeState(Deref(h, newBlocks))
        newPath == Append(current.path, [blockIndex |-> i, direction |-> dir])
    IN  IF SetHas(r.visited, hash)
        THEN [r EXCEPT !.heap = h]
        ELSE IF isSolved(Deref(h, newBlocks))
        THEN [r EXCEPT !.heap = h, !.found = TRUE, !.path = newPath]
        ELSE IF Len(newPath) < depth
        THEN [r EXCEPT !.heap = h,
                       !.visited = SetAdd(@, hash),
                       !.queue = Append(@, [blocks |-> newBlocks,
                                            path |-> newPath])]
        ELSE [r EXCEPT !.heap = h]

\* the pairs from the k-th on, in the order of the loops; the length of
\* current.blocks is read again at every turn of the outer loop
RECURSIVE VisitFrom(_, _, _, _)
VisitFrom(current, k, r, depth) ==
  IF r.found \/ k > 4 * Len(r.heap.lists[current.blocks])
  THEN r
  ELSE VisitFrom(current, k + 1,
                 VisitPair(current,
                           [blockIndex |-> (k - 1) \div 4,
                            direction |-> dirs[((k - 1) % 4) + 1]],
                           r, depth),
                 depth)

\* the boards findSolution is called on as objects: every piece list of
\* one King, and of a King and a Pawn, the empty list, a board of three
\* pieces, a King next to the exit behind a Pawn, and a board whose two
\* pieces overlap
HeapBoards ==
  Placements(<<"KING">>) \cup Placements(<<"KING", "PAWN">>)
    \cup { <<>>,
           Board(<< <<"VERTICAL", 0, 0>>, <<"KING", 1, 1>>, <<"PAWN", 3, 4>> >>),
           Board(<< <<"PAWN", 1, 3>>, <<"PAWN", 2, 3>>, <<"KING", 1, 1>> >>),
           Board(<< <<"KING", 1, 3>>, <<"PAWN", 1, 3>> >>) }

\* the largest maxDepth argument of these calls
HeapDepth == 2

\* the caller holds one array with one object per block
InitHeap ==
  /\ initialBlocks \in HeapBoards
  /\ maxDepth \in 0..HeapDepth
  /\ heap = [objs  |-> initialBlocks,
             lists |-> <<[j \in 1..Len(initialBlocks) |-> j]>>]
  /\ callerBlocks = 1
  /\ call2 = NoCall
  /\ ui = NoUi
  /\ pc = "start"
  /\ queue = <<>>
  /\ visited = NewSet
  /\ head = 0
  /\ returned = "pending"
  /\ result = <<>>
  /\ exceeded = FALSE

\* findSolution up to the loop; queue entries hold the address of their
\* blocks array
StartH ==
  /\ pc = "start"
  /\ LET cl          == CloneBlocks(heap, callerBlocks)
         startBlocks == cl.ref
         startHash   == encodeState(Deref(cl.heap, startBlocks))
     IN  /\ heap' = cl.heap
         /\ IF isSolved(Deref(cl.heap, startBlocks))
            THEN /\ pc' = "done"
                 /\ returned' = "list"
                 /\ result' = <<>>
                 /\ UNCHANGED <<queue, visited, head>>
            ELSE /\ pc' = "loop"
                 /\ queue' = <<[blocks |-> startBlocks, path |-> <<>>]>>
                 /\ visited' = SetAdd(NewSet, startHash)
                 /\ head' = 0
                 /\ UNCHANGED <<returned, result>>
  /\ UNCHANGED <<initialBlocks, maxDepth, exceeded, callerBlocks, call2, ui>>

\* one turn of while (head < queue.length), the final failing test included
IterateH ==
  /\ pc = "loop"
  /\ IF head >= Len(queue)
     THEN /\ pc' = "done"
          /\ returned' = "null"
          /\ UNCHANGED <<queue, visited, head, result, exceeded, heap>>
     ELSE IF head > MAX_ITERATIONS
     THEN /\ pc' = "done"
          /\ returned' = "null"
          /\ exceeded' = TRUE
          /\ UNCHANGED <<queue, visited, head, result, heap>>
     ELSE \E r \in {VisitFrom(queue[head + 1], 1,
                              [heap |-> heap, queue |-> queue,
                               visited |-> visited, found |-> FALSE,
                               path |-> <<>>], maxDepth)} :
            /\ head' = head + 1
            /\ heap' = r.heap
            /\ queue' = r.queue
            /\ visited' = r.visited
            /\ pc' = IF r.found THEN "done" ELSE "loop"
            /\ returned' = IF r.found THEN "list" ELSE returned
            /\ result' = IF r.found THEN r.path ELSE result
            /\ UNCHANGED exceeded
  /\ UNCHANGED <<initialBlocks, maxDepth, callerBlocks, call2, ui>>

NextHeap == StartH \/ IterateH

SpecHeap == InitHeap /\ [][NextHeap]_vars

(***************************************************************************)
(* Two findSolution calls, each with its own arguments and its own locals  *)
(* (queue, visited and head are consts and lets of the function body); the *)
(* turns of their loops interleave in every order.  The first call is      *)
(* followed in the variables of the module, the second in call2.           *)
(***************************************************************************)
\* variant: the visited set is one object for all calls
NewVisitedShared(otherCall) ==
  IF otherCall.pc = "start" THEN NewSet ELSE otherCall.visited

\* const visited = new Set<string>(): an empty set of this call
NewVisited(otherCall) == NewSet

\* the boards of the two calls: the empty list, a solved board, Kings one
\* and two moves from the exit, two Pawns and a board of three pieces
TwoBoards ==
  { <<>>,
    Board(<< <<"KING", 1, 3>> >>),
    Board(<< <<"KING", 0, 2>> >>),
    Board(<< <<"KING", 1, 2>>, <<"PAWN", 1, 4>> >>),
    Board(<< <<"PAWN", 0, 0>>, <<"PAWN", 1, 0>> >>),
    Board(<< <<"VERTICAL", 0, 0>>, <<"KING", 1, 1>>, <<"PAWN", 3, 4>> >>) }

\* the largest maxDepth argument of the two calls
TwoDepth == 2

InitTwo ==
  /\ initialBlocks \in TwoBoards
  /\ maxDepth \in 0..TwoDepth
  /\ pc = "start"
  /\ queue = <<>>
  /\ visited = NewSet
  /\ head = 0
  /\ returned = "pending"
  /\ result = <<>>
  /\ exceeded = FALSE
  /\ heap = NoHeap
  /\ callerBlocks = 0
  /\ \E b \in TwoBoards, d \in 0..TwoDepth :
       call2 = [initialBlocks |-> b, maxDepth |-> d, pc |-> "start",
                queue |-> <<>>, visited |-> NewSet, head |-> 0,
                returned |-> "pending", result |-> <<>>, exceeded |-> FALSE]
  /\ ui = NoUi

\* the second call up to its loop
Start2 ==
  /\ call2.pc = "start"
  /\ LET startBlocks ==
           [j \in 1..Len(call2.initialBlocks) |->
              [type |-> call2.initialBlocks[j].type,
               x |-> call2.initialBlocks[j].x,
               y |-> call2.initialBlocks[j].y,
               width |-> call2.initialBlocks[j].width,
               height |-> call2.initialBlocks[j].height]]
         startHash == encodeState(startBlocks)
     IN  IF isSolved(startBlocks)
         THEN call2' = [call2 EXCEPT !.pc = "done", !.returned = "list",
                                     !.result = <<>>]
         ELSE call2' = [call2 EXCEPT
                          !.pc = "loop",
                          !.queue = <<[blocks |-> startBlocks, path |-> <<>>]>>,
                          !.visited = SetAdd(NewVisited(Locals), startHash),
                          !.head = 0]
  /\ UNCHANGED <<initialBlocks, maxDepth, pc, queue, visited, head, returned,
                 result, exceeded, heap, callerBlocks, ui>>

\* one turn of the loop of the second call
Iterate2 ==
  /\ call2.pc = "loop"
  /\ call2' = WhileStep(call2, call2.maxDepth)
  /\ UNCHANGED <<initialBlocks, maxDepth, pc, queue, visited, head, returned,
                 result, exceeded, heap, callerBlocks, ui>>

NextTwo == Start \/ Iterate \/ Start2 \/ Iterate2

SpecTwoCalls == InitTwo /\ [][NextTwo]_vars

(***************************************************************************)
(* GameBoard: the legality test of moveBlock.  The block with id targetId  *)
(* is the block at blockIndex; the ids of a level are pairwise different.  *)
(***************************************************************************)
\* variant: the moving block is not left out
getOccupiedCellsAll(currentBlocks, excludeIndex) ==
  UNION {Cells(currentBlocks[j]) : j \in 1..Len(currentBlocks)}

\* the cells of every block but the one at excludeIndex
getOccupiedCells(currentBlocks, excludeIndex) ==
  UNION {Cells(currentBlocks[j]) :
           j \in (1..Len(currentBlocks)) \ {excludeIndex + 1}}

\* the blocks moveBlock leaves: currentBlocks when it returns early at the
\* boundary or collision check, otherwise the list with the block at
\* (newX, newY)
moveBlock(currentBlocks, blockIndex, direction) ==
  LET block == currentBlocks[blockIndex + 1]
      newX  == block.x + (IF direction = "LEFT" THEN -1
                          ELSE IF direction = "RIGHT" THEN 1 ELSE 0)
      newY  == block.y + (IF direction = "UP" THEN -1
                          ELSE IF direction = "DOWN" THEN 1 ELSE 0)
      occupied == getOccupiedCells(currentBlocks, blockIndex)
      collision ==
        \E dx \in 0..(block.width - 1), dy \in 0..(block.height - 1) :
          <<newX + dx, newY + dy>> \in occupied
  IN  IF newX < 0 \/ newY < 0 \/ newX + block.width > GRID_WIDTH
         \/ newY + block.height > GRID_HEIGHT
      THEN currentBlocks
      ELSE IF collision THEN currentBlocks
      ELSE [currentBlocks EXCEPT ![blockIndex + 1] =
              [block EXCEPT !.x = newX, !.y = newY]]

(***************************************************************************)
(* The game: the App component (difficulty, blocks, moves, hasWon) and the *)
(* GameBoard it mounts with key={difficulty}, with their timers.  ui holds *)
(* the state of the two components; a step is one event handler or one     *)
(* timer callback, with the render that follows it: blocksRef and movesRef *)
(* of the mounted GameBoard hold the blocks and moves of the App after     *)
(* every step (effect of lines 40-43).  A block's id is its place in the   *)
(* level's list, which no handler changes; -1 stands for no id (null).     *)
(* A GameBoard that is unmounted keeps its refs as they were, its state    *)
(* setters do nothing, and its timers stay (no handler clears them).       *)
(* The hint of handleGetHint does not write the board and is not followed. *)
(* While hasWon holds the victory modal covers the page (fixed inset-0     *)
(* z-50): the controls under it take no pointer event, the keys still move *)
(* the selected block.                                                     *)
(***************************************************************************)
\* The levels of the game: boards of two pieces in the place of LEVELS,
\* one or two moves from the exit, so that every board of a game is solved
\* in a few turns of the search.
GameLevels ==
  [EASY   |-> Board(<< <<"KING", 0, 3>>, <<"PAWN", 3, 0>> >>),
   MEDIUM |-> Board(<< <<"PAWN", 0, 0>>, <<"KING", 1, 1>> >>),
   HARD   |-> Board(<< <<"KING", 1, 2>>, <<"PAWN", 0, 4>> >>)]

Difficulty == {"EASY", "MEDIUM", "HARD"}

\* the options of the steps select that are tried: 1, and -1 for all (the
\* option 5 shows all moves of a solution of up to five moves)
HintStepOptions == {1, -1}

\* the largest move counter and the largest history up to which the player
\* moves, the largest number of pending onWin timers with which the player
\* moves, and of pending timers with which auto-solve is clicked
MaxMoves == 1

MaxHistory == 2

MaxWinTimers == 1

MaxTimers == 1

\* the largest number of GameBoards mounted one after the other
MaxMounts == 2

\* useState initial values of a GameBoard that is mounted
MountGameBoard(u) ==
  [u EXCEPT !.mounts = @ + 1, !.selectedBlockId = -1, !.history = <<>>,
            !.isSolving = FALSE, !.isPlayingHint = FALSE, !.hintSteps = 1]

\* useState initial values of App, with the first GameBoard mounted
InitGame ==
  /\ ui = [screen |-> "game", difficulty |-> "HARD",
           blocks |-> GameLevels.HARD, moves |-> 0, hasWon |-> FALSE,
           mounts |-> 1, selectedBlockId |-> -1, history |-> <<>>,
           isSolving |-> FALSE, isPlayingHint |-> FALSE, hintSteps |-> 1,
           timers |-> <<>>]
  /\ initialBlocks = <<>>
  /\ maxDepth = DEFAULT_MAX_DEPTH
  /\ pc = "start"
  /\ queue = <<>>
  /\ visited = NewSet
  /\ head = 0
  /\ returned = "pending"
  /\ result = <<>>
  /\ exceeded = FALSE
  /\ heap = NoHeap
  /\ callerBlocks = 0
  /\ call2 = NoCall

\* the variables of the solver are not used by the game: a findSolution
\* call is made inside the timer callback that needs its result
GameFrame ==
  UNCHANGED <<initialBlocks, maxDepth, pc, queue, visited, head, returned,
              result, exceeded, heap, callerBlocks, call2>>

\* findSolution(blocks) as a function of its argument: the steps of Start
\* and of the while loop on locals of its own
FindSolution(blocks) ==
  LET startBlocks ==
        [j \in 1..Len(blocks) |->
           [type |-> blocks[j].type, x |-> blocks[j].x, y |-> blocks[j].y,
            width |-> blocks[j].width, height |-> blocks[j].height]]
      st0 == [queue |-> <<[blocks |-> startBlocks, path |-> <<>>]>>,
              visited |-> SetAdd(NewSet, encodeState(startBlocks)),
              head |-> 0, pc |-> "loop", returned |-> "pending",
              result |-> <<>>, exceeded |-> FALSE]
  IN  IF isSolved(startBlocks)
      THEN [returned |-> "list", result |-> <<>>]
      ELSE LET st == RunLoop(st0, DEFAULT_MAX_DEPTH, MAX_ITERATIONS + 2)
           IN  [returned |-> st.returned, result |-> st.result]

\* A pending timer.  mounted tells whether the GameBoard that set it is
\* still the mounted one; blocks and hintSteps are the values its closure
\* holds; refBlocks and refMoves are blocksRef.current and movesRef.current
\* of a GameBoard that was unmounted.
Timer(kind, blocks, hintSteps, movesToApply, i, mounted, refBlocks, refMoves) ==
  [kind |-> kind, blocks |-> blocks, hintSteps |-> hintSteps,
   movesToApply |-> movesToApply, i |-> i, mounted |-> mounted,
   refBlocks |-> refBlocks, refMoves |-> refMoves]

\* setTimeout(onWin, 300)
WinTimer(mounted) == Timer("win", <<>>, 0, <<>>, 0, mounted, <<>>, 0)

RemoveAt(seq, k) == SubSeq(seq, 1, k - 1) \o SubSeq(seq, k + 1, Len(seq))

\* currentBlocks.findIndex(b => b.id === targetId), or -1
FindIndex(currentBlocks, targetId) ==
  IF targetId \in 0..(Len(currentBlocks) - 1) THEN targetId ELSE -1

IsWinningMove(block, newX, newY) ==
  block.type = "KING" /\ newX = WIN_COORDS.x /\ newY = WIN_COORDS.y

\* variant: a move that is rejected at the boundary or collision check is
\* counted and recorded in the history
MoveBlockHandlerCounting(u, direction, autoId) ==
  LET targetId == IF autoId # -1 THEN autoId ELSE u.selectedBlockId
      currentBlocks == u.blocks
      currentMoves == u.moves
      blockIndex == FindIndex(currentBlocks, targetId)
      newBlocks == moveBlock(currentBlocks, blockIndex, direction)
      block == newBlocks[blockIndex + 1]
  IN  IF targetId = -1 THEN u
      ELSE IF blockIndex = -1 THEN u
      ELSE [u EXCEPT
              !.history = Append(@, [blocks |-> currentBlocks,
                                     moves |-> currentMoves]),
              !.blocks = newBlocks,
              !.moves = @ + 1,
              !.timers = IF IsWinningMove(block, block.x, block.y)
                         THEN Append(@, WinTimer(TRUE)) ELSE @]

\* moveBlock(direction, autoId), called in the mounted GameBoard u; autoId
\* is -1 when the argument is left out
MoveBlockHandler(u, direction, autoId) ==
  LET targetId == IF autoId # -1 THEN autoId ELSE u.selectedBlockId
      currentBlocks == u.blocks
      currentMoves == u.moves
      blockIndex == FindIndex(currentBlocks, targetId)
      newBlocks == moveBlock(currentBlocks, blockIndex, direction)
      block == newBlocks[blockIndex + 1]
  IN  IF targetId = -1 THEN u
      ELSE IF blockIndex = -1 THEN u
      ELSE IF newBlocks = currentBlocks THEN u
      ELSE [u EXCEPT
              !.history = Append(@, [blocks |-> currentBlocks,
                                     moves |-> currentMoves]),
              !.blocks = newBlocks,
              !.moves = @ + 1,
              !.timers = IF IsWinningMove(block, block.x, block.y)
                         THEN Append(@, WinTimer(TRUE)) ELSE @]

\* an id no block of a level has
UnknownId == 9

\* the ids a swipe or a click can be given
BlockIds == 0..1 \cup {UnknownId}

\* the player moves while the counter, the history and the pending onWin
\* timers are within their bounds
MoveBudget ==
  /\ ui.moves < MaxMoves
  /\ Len(ui.history) < MaxHistory
  /\ Cardinality({k \in 1..Len(ui.timers) : ui.timers[k].kind = "win"})
       < MaxWinTimers

\* handleSwipe(id, direction)
handleSwipe ==
  /\ ui.screen = "game"
  /\ ~ui.hasWon
  /\ ~ui.isPlayingHint
  /\ MoveBudget
  /\ \E id \in BlockIds, direction \in Direction :
       ui' = MoveBlockHandler([ui EXCEPT !.selectedBlockId = id],
                              direction, id)
  /\ GameFrame

\* a key or a direction button: moveBlock(direction) on the selected block;
\* the key handler is registered and the buttons take clicks while no hint
\* is played
handleKeyDown ==
  /\ ui.screen = "game"
  /\ ~ui.isPlayingHint
  /\ MoveBudget
  /\ \E direction \in Direction : ui' = MoveBlockHandler(ui, direction, -1)
  /\ GameFrame

\* a click on a block, or on the board beside the blocks (id = -1)
setSelectedBlockId ==
  /\ ui.screen = "game"
  /\ ~ui.hasWon
  /\ ~ui.isPlayingHint
  /\ \E id \in -1..1 : ui' = [ui EXCEPT !.selectedBlockId = id]
  /\ GameFrame

\* the steps select
setHintSteps ==
  /\ ui.screen = "game"
  /\ ~ui.hasWon
  /\ ~ui.isPlayingHint
  /\ \E n \in HintStepOptions : ui' = [ui EXCEPT !.hintSteps = n]
  /\ GameFrame

\* handleUndo; the button is disabled while a hint is played
handleUndo ==
  /\ ui.screen = "game"
  /\ ~ui.hasWon
  /\ ~ui.isPlayingHint
  /\ ui' = IF Len(ui.history) = 0 THEN ui
           ELSE LET lastState == ui.history[Len(ui.history)]
                IN  [ui EXCEPT
                       !.history = SubSeq(@, 1, Len(@) - 1),
                       !.blocks = lastState.blocks,
                       !.moves = lastState.moves]
  /\ GameFrame

\* resetGame of App
ResetGameOf(u) ==
  [u EXCEPT !.blocks = GameLevels[u.difficulty], !.moves = 0,
            !.hasWon = FALSE]

\* handleReset; the button is disabled while a hint is played
handleReset ==
  /\ ui.screen = "game"
  /\ ~ui.hasWon
  /\ ~ui.isPlayingHint
  /\ ui' = ResetGameOf([ui EXCEPT !.history = <<>>])
  /\ GameFrame

\* Play Again of the victory modal
resetGame ==
  /\ ui.screen = "game"
  /\ ui.hasWon
  /\ ui' = ResetGameOf(ui)
  /\ GameFrame

\* the timers of the GameBoard that is unmounted keep the refs it had
Unmounted(u) ==
  [k \in 1..Len(u.timers) |->
     IF u.timers[k].mounted /\ u.timers[k].kind # "win"
     THEN [u.timers[k] EXCEPT !.mounted = FALSE, !.refBlocks = u.blocks,
                              !.refMoves = u.moves]
     ELSE [u.timers[k] EXCEPT !.mounted = FALSE]]

\* changeDifficulty(newDiff), and the mount of a new GameBoard for the key
changeDifficulty ==
  /\ ui.screen = "game"
  /\ ~ui.hasWon
  /\ ui.mounts < MaxMounts
  /\ \E newDiff \in Difficulty \ {ui.difficulty} :
       ui' = MountGameBoard(
               [ui EXCEPT !.difficulty = newDiff,
                          !.blocks = GameLevels[newDiff],
                          !.moves = 0,
                          !.hasWon = FALSE,
                          !.timers = Unmounted(ui)])
  /\ GameFrame

\* handleAutoSolve up to its setTimeout; the button is disabled while
\* isSolving
handleAutoSolve ==
  /\ ui.screen = "game"
  /\ ~ui.hasWon
  /\ ~ui.isSolving
  /\ ~ui.isPlayingHint
  /\ Len(ui.timers) < MaxTimers
  /\ Len(ui.history) < MaxHistory
  /\ ui' = [ui EXCEPT
              !.isSolving = TRUE,
              !.timers = Append(@, Timer("solve", ui.blocks, ui.hintSteps,
                                         <<>>, 0, TRUE, <<>>, 0))]
  /\ GameFrame

Min(a, b) == IF a < b THEN a ELSE b

\* the callback of the 100 ms timeout of handleAutoSolve, for timer k
SolveTimeoutOf(u, k) ==
  LET t == u.timers[k]
      solution == FindSolution(t.blocks)
      u1 == [u EXCEPT !.timers = RemoveAt(@, k),
                      !.isSolving = IF t.mounted THEN FALSE ELSE @]
      len == Len(solution.result)
      stepsToShow == IF t.hintSteps = -1 THEN len ELSE Min(len, t.hintSteps)
      movesToApply == SubSeq(solution.result, 1, stepsToShow)
  IN  IF solution.returned # "list" \/ len = 0 THEN u1
      ELSE [u1 EXCEPT
              !.isPlayingHint = IF t.mounted THEN TRUE ELSE @,
              !.selectedBlockId = IF t.mounted THEN -1 ELSE @,
              !.timers = Append(@, Timer("replay", <<>>, 0, movesToApply, 0,
                                         t.mounted, t.refBlocks,
                                         t.refMoves))]

SolveTimeout ==
  /\ ui.screen = "game"
  /\ \E k \in 1..Len(ui.timers) :
       /\ ui.timers[k].kind = "solve"
       /\ ui' = SolveTimeoutOf(ui, k)
  /\ GameFrame

\* the block of a replayed move after the move: no test is made
ReplayedBlock(block, direction) ==
  [block EXCEPT
     !.x = IF direction = "LEFT" THEN @ - 1
           ELSE IF direction = "RIGHT" THEN @ + 1 ELSE @,
     !.y = IF direction = "UP" THEN @ - 1
           ELSE IF direction = "DOWN" THEN @ + 1 ELSE @]

\* one callback of the 250 ms interval of handleAutoSolve, for timer k
ReplayIntervalOf(u, k) ==
  LET t == u.timers[k]
      move == t.movesToApply[t.i + 1]
      currentBlocks == IF t.mounted THEN u.blocks ELSE t.refBlocks
      currentMoves == IF t.mounted THEN u.moves ELSE t.refMoves
      index == move.blockIndex
      block == currentBlocks[index + 1]
      moved == ReplayedBlock(block, move.direction)
      newBlocks == [currentBlocks EXCEPT ![index + 1] = moved]
      ticked == [u EXCEPT !.timers[k].i = @ + 1]
  IN  IF t.i >= Len(t.movesToApply)
      THEN [u EXCEPT !.timers = RemoveAt(@, k),
                     !.isPlayingHint = IF t.mounted THEN FALSE ELSE @]
      ELSE IF index + 1 \notin DOMAIN currentBlocks THEN ticked
      ELSE [ticked EXCEPT
              !.history = IF t.mounted
                          THEN Append(@, [blocks |-> currentBlocks,
                                          moves |-> currentMoves])
                          ELSE @,
              !.blocks = newBlocks,
              !.moves = @ + 1,
              !.selectedBlockId = IF t.mounted THEN index ELSE @,
              !.timers = IF IsWinningMove(block, moved.x, moved.y)
                         THEN Append(@, WinTimer(t.mounted)) ELSE @]

ReplayInterval ==
  /\ ui.screen = "game"
  /\ \E k \in 1..Len(ui.timers) :
       /\ ui.timers[k].kind = "replay"
       /\ ui' = ReplayIntervalOf(ui, k)
  /\ GameFrame

\* the callback of setTimeout(onWin, 300): setHasWon(true)
onWin ==
  /\ ui.screen = "game"
  /\ \E k \in 1..Len(ui.timers) :
       /\ ui.timers[k].kind = "win"
       /\ ui' = [ui EXCEPT !.timers = RemoveAt(@, k), !.hasWon = TRUE]
  /\ GameFrame

\* Events and timer callbacks in any order: the handlers of the user's
\* events while their controls take them, the callbacks of the pending
\* timers whenever one is pending.
NextGame ==
  \/ handleSwipe
  \/ handleKeyDown
  \/ setSelectedBlockId
  \/ setHintSteps
  \/ handleUndo
  \/ handleReset
  \/ resetGame
  \/ changeDifficulty
  \/ handleAutoSolve
  \/ SolveTimeout
  \/ ReplayInterval
  \/ onWin

SpecGame == InitGame /\ [][NextGame]_vars

(***************************************************************************)
(* Reference definitions the claims are stated with: legality by cells,    *)
(* replay of a move list, and exhaustive search over full piece positions  *)
(* (piece by piece, never through encodeState).                            *)
(***************************************************************************)
GridCells == (0..(GRID_WIDTH - 1)) \X (0..(GRID_HEIGHT - 1))

Shifted(b, dir) ==
  [b EXCEPT !.x = @ + DeltaX(dir), !.y = @ + DeltaY(dir)]

\* piece i moved one cell lies in the grid and shares no cell with another
CellLegal(i, dir, blocks) ==
  LET target == Cells(Shifted(blocks[i + 1], dir))
  IN  /\ target \subseteq GridCells
      /\ \A j \in 1..Len(blocks) :
           j # i + 1 => target \cap Cells(blocks[j]) = {}

Moved(blocks, i, dir) == [blocks EXCEPT ![i + 1] = Shifted(@, dir)]

KingAtGoal(blocks) ==
  \E j \in 1..Len(blocks) :
    /\ blocks[j].type = "KING"
    /\ blocks[j].x = WIN_COORDS.x
    /\ blocks[j].y = WIN_COORDS.y

Successors(blocks) ==
  {Moved(blocks, i, dir) :
     <<i, dir>> \in {m \in (0..(Len(blocks) - 1)) \X Direction :
                       CellLegal(m[1], m[2], blocks)}}

\* replay of moves on blocks: ok is FALSE as soon as one move is illegal
RECURSIVE Replay(_, _)
Replay(blocks, moves) ==
  IF moves = <<>> THEN [ok |-> TRUE, blocks |-> blocks]
  ELSE LET m == Head(moves)
       IN  IF m.blockIndex \in 0..(Len(blocks) - 1)
              /\ CellLegal(m.blockIndex, m.direction, blocks)
           THEN Replay(Moved(blocks, m.blockIndex, m.direction), Tail(moves))
           ELSE [ok |-> FALSE, blocks |-> blocks]

\* breadth-first levels over positions: the least d <= limit such that a
\* position d moves away has the King at the goal, or -1
RECURSIVE ShortestFrom(_, _, _, _)
ShortestFrom(frontier, seen, d, limit) ==
  IF \E b \in frontier : KingAtGoal(b) THEN d
  ELSE IF frontier = {} \/ d >= limit THEN -1
  ELSE LET next == (UNION {Successors(b) : b \in frontier}) \ seen
       IN  ShortestFrom(next, seen \cup next, d + 1, limit)

\* no move list is longer than the number of positions
Unbounded == MAX_ITERATIONS

ShortestLen(blocks) == ShortestFrom({blocks}, {blocks}, 0, Unbounded)

WithinLen(blocks, limit) == ShortestFrom({blocks}, {blocks}, 0, limit)

\* moves in the order (blockIndex ascending, then UP, DOWN, LEFT, RIGHT)
DirRank(dir) ==
  IF dir = "UP" THEN 0 ELSE IF dir = "DOWN" THEN 1
  ELSE IF dir = "LEFT" THEN 2 ELSE 3

MoveRank(m) == 4 * m.blockIndex + DirRank(m.direction)

\* the least, in lexicographic order, of the solutions of length d from
\* blocks, where d is the length of a shortest solution
RECURSIVE LeastSolution(_, _)
LeastSolution(blocks, d) ==
  IF d = 0 THEN <<>>
  ELSE LET good == {m \in [blockIndex : 0..(Len(blocks) - 1),
                           direction : Direction] :
                      /\ CellLegal(m.blockIndex, m.direction, blocks)
                      /\ WithinLen(Moved(blocks, m.blockIndex, m.direction),
                                   d - 1) = d - 1}
           best == CHOOSE m \in good :
                     \A o \in good : MoveRank(m) <= MoveRank(o)
       IN  IF good = {} THEN <<>>
           ELSE <<best>> \o LeastSolution(Moved(blocks, best.blockIndex,
                                                best.direction), d - 1)

\* the board has the one King the claims speak of (or none)
SingleKing(blocks) == Cardinality(KingPositions(blocks)) <= 1

\* a valid board with one King
Puzzle(blocks) == ValidBoard(blocks) /\ SingleKing(blocks)

Done == pc = "done"

Solution == pc = "done" /\ returned = "list"

(***************************************************************************)
(* Claims                                                                  *)
(***************************************************************************)

\* C1 (soundness): on a valid board, a non-empty returned list replays on
\* the input list without an illegal move and ends with the King at (1,3).
C1_Soundness ==
  (Solution /\ result # <<>> /\ ValidBoard(initialBlocks)) =>
     LET r == Replay(initialBlocks, result)
     IN  r.ok /\ KingAtGoal(r.blocks)

C1_Witness ==
  /\ Solution /\ ValidBoard(initialBlocks)
  /\ Len(result) >= 4 /\ Len(initialBlocks) >= 5
  /\ Replay(initialBlocks, result).ok

\* C2 (optimality): on a valid board with one King, the length of a
\* returned list is the length of a shortest legal move sequence to a board
\* with the King at (1,3), found by exhaustive search over piece positions.
C2_Optimality ==
  (Solution /\ Puzzle(initialBlocks)) =>
     Len(result) = ShortestLen(initialBlocks)

C2_Witness ==
  /\ Solution /\ ValidBoard(initialBlocks)
  /\ Len(result) >= 13
  /\ ShortestLen(initialBlocks) = Len(result)

C3_WitnessFound ==
  /\ Done /\ ValidBoard(initialBlocks) /\ ~exceeded
  /\ returned = "list" /\ maxDepth = 3 /\ Len(result) = 3

\* C4 (depth bound): on a valid board and for every maxDepth >= 0, a
\* returned list never has more than maxDepth moves.
C4_DepthBound ==
  (Solution /\ ValidBoard(initialBlocks)) => Len(result) <= maxDepth

\* C5 (already solved): a board whose one King is at (1,3) gets the empty
\* list and no node is queued or dequeued, for every maxDepth.
C5_AlreadySolved ==
  (pc # "start" /\ SingleKing(initialBlocks)
   /\ KingAtGoal(initialBlocks)) =>
     /\ Solution /\ result = <<>>
     /\ head = 0 /\ queue = <<>> /\ Elements(visited) = {}

C5_Witness ==
  /\ Solution /\ result = <<>> /\ head = 0 /\ maxDepth = 0
  /\ Len(initialBlocks) = 2 /\ initialBlocks[2].type = "KING"
  /\ initialBlocks[2].x = 1 /\ initialBlocks[2].y = 3

\* the King of a board stands one cell above the goal and the two cells
\* below it are free
AdjacentGoal(blocks) ==
  /\ Puzzle(blocks)
  /\ \E j \in 1..Len(blocks) :
       blocks[j].type = "KING" /\ blocks[j].x = 1 /\ blocks[j].y = 2
  /\ \A j \in 1..Len(blocks) :
       Cells(blocks[j]) \cap {<<1, 4>>, <<2, 4>>} = {}

KingIndex(blocks) ==
  (CHOOSE j \in 1..Len(blocks) : blocks[j].type = "KING") - 1

\* C7 (adjacent goal): a valid board with the King at (1,2) and (1,4),
\* (2,4) empty gets exactly the one move (index of the King, DOWN),
\* wherever the King is in the list and whatever the other pieces are.
C7_AdjacentGoal ==
  (Done /\ AdjacentGoal(initialBlocks)) =>
     /\ returned = "list"
     /\ result = <<[blockIndex |-> KingIndex(initialBlocks),
                    direction |-> "DOWN"]>>

C7_Witness ==
  /\ Done /\ AdjacentGoal(initialBlocks)
  /\ Len(initialBlocks) = 3 /\ KingIndex(initialBlocks) = 1
  /\ result = <<[blockIndex |-> 1, direction |-> "DOWN"]>>

QueueKeys == {encodeState(queue[j].blocks) : j \in 1..Len(queue)}

\* C8 (no duplicate enqueue): the visited set is the set of the keys of the
\* nodes pushed so far (root included), no two pushed nodes have the same
\* key, and the visited set only grows.
C8_NoDuplicateEnqueue ==
  /\ [](Elements(visited) = QueueKeys /\ Cardinality(QueueKeys) = Len(queue))
  /\ [][Elements(visited) \subseteq Elements(visited')]_vars

C8_Witness ==
  /\ pc = "loop" /\ Len(queue) >= 100 /\ head >= 50
  /\ Cardinality(Elements(visited)) = Len(queue)

\* C9 (tie-break): on a valid board with one King the returned list is the
\* least of the shortest solutions in lexicographic order, moves ordered
\* by blockIndex and then UP, DOWN, LEFT, RIGHT.
C9_TieBreak ==
  (Solution /\ Puzzle(initialBlocks)) =>
     result = LeastSolution(initialBlocks, ShortestLen(initialBlocks))

\* a second shortest solution exists: the first two moves in the other order
C9_Witness ==
  /\ Solution /\ ValidBoard(initialBlocks) /\ Len(result) >= 2
  /\ MoveRank(result[1]) < MoveRank(result[2])
  /\ LET other == <<result[2], result[1]>> \o SubSeq(result, 3, Len(result))
         r == Replay(initialBlocks, other)
     IN  r.ok /\ KingAtGoal(r.blocks)

\* C10 (move legality): on a valid board canMove(i, dir) holds exactly when
\* piece i shifted by one cell lies in the grid and shares no cell with
\* another piece; its own cells never block it.
C10_MoveLegality ==
  \A j \in 1..Len(queue) :
    ValidBoard(queue[j].blocks) =>
      \A i \in 0..(Len(queue[j].blocks) - 1), dir \in Direction :
        canMove(i, dir, queue[j].blocks) = CellLegal(i, dir, queue[j].blocks)

\* a 2x2 King moves onto cells it covers itself while a neighbour blocks
\* another move of it
C10_Witness ==
  \E j \in 1..Len(queue) :
    LET bs == queue[j].blocks
    IN  /\ ValidBoard(bs)
        /\ \E i \in 0..(Len(bs) - 1), d1, d2 \in Direction :
             /\ bs[i + 1].type = "KING"
             /\ canMove(i, d1, bs)
             /\ ~canMove(i, d2, bs)
             /\ Cells(Shifted(bs[i + 1], d2)) \subseteq GridCells

\* C6 (classic layout): on LEVELS.HARD with maxDepth 200 and 50000
\* iterations findSolution returns a list, and replaying it leaves the
\* King's top-left at (1,3).
C6_ClassicLayout ==
  (Done /\ initialBlocks = LEVELS.HARD /\ maxDepth = DEFAULT_MAX_DEPTH) =>
     /\ returned = "list"
     /\ LET r == Replay(initialBlocks, result)
        IN  r.ok /\ KingAtGoal(r.blocks)

C6_Witness ==
  /\ Solution /\ initialBlocks = LEVELS.HARD /\ maxDepth = DEFAULT_MAX_DEPTH
  /\ Len(result) > 100 /\ head > 20000 /\ ~exceeded

\* every move of the list, applied in order whether legal or not, leaves
\* the piece it moves on cells of the grid
RECURSIVE StaysInGrid(_, _)
StaysInGrid(blocks, moves) ==
  IF moves = <<>> THEN TRUE
  ELSE LET m    == Head(moves)
           next == Moved(blocks, m.blockIndex, m.direction)
       IN  /\ Cells(next[m.blockIndex + 1]) \subseteq GridCells
           /\ StaysInGrid(next, Tail(moves))

\* C11 (boundary rejection): on every board of the search canMove rejects
\* the move of a piece that would put one of its cells outside the grid, in
\* particular the move of a piece at an edge across that edge, and no move
\* of a returned list puts a cell of the piece it moves outside the grid.
C11_BoundaryRejection ==
  /\ \A j \in 1..Len(queue) :
       \A i \in 0..(Len(queue[j].blocks) - 1), dir \in Direction :
         ~(Cells(Shifted(queue[j].blocks[i + 1], dir)) \subseteq GridCells)
           => ~canMove(i, dir, queue[j].blocks)
  /\ Solution => StaysInGrid(initialBlocks, result)

\* a list is returned that moves a piece standing at the left edge, which
\* canMove does not let go LEFT on the input board
C11_Witness ==
  /\ Solution /\ Len(result) >= 4 /\ Len(queue) >= 1
  /\ StaysInGrid(initialBlocks, result)
  /\ \E k \in 1..Len(result) :
       LET i == result[k].blockIndex
       IN  /\ initialBlocks[i + 1].x = 0
           /\ Cells(initialBlocks[i + 1]) \subseteq GridCells
           /\ ~canMove(i, "LEFT", queue[1].blocks)

\* C12 (solver and interactive layer agree): on every valid board of the
\* search, for every piece and direction, canMove accepts the move exactly
\* when moveBlock changes the list, and then the solver's successor is the
\* list moveBlock leaves.
C12_SolverAgreesWithBoard ==
  \A j \in 1..Len(queue) :
    ValidBoard(queue[j].blocks) =>
      \A i \in 0..(Len(queue[j].blocks) - 1), dir \in Direction :
        LET bs    == queue[j].blocks
            after == moveBlock(bs, i, dir)
        IN  /\ canMove(i, dir, bs) = (after # bs)
            /\ canMove(i, dir, bs) => ApplyMove(bs, i, dir) = after

\* on a board of at least five pieces both accept one move of a piece of
\* more than one cell and both reject another for a collision
C12_Witness ==
  \E j \in 1..Len(queue) :
    LET bs == queue[j].blocks
    IN  /\ ValidBoard(bs) /\ Len(bs) >= 5
        /\ \E i \in 0..(Len(bs) - 1), d1, d2 \in Direction :
             /\ bs[i + 1].width * bs[i + 1].height > 1
             /\ canMove(i, d1, bs) /\ moveBlock(bs, i, d1) # bs
             /\ ~canMove(i, d2, bs) /\ moveBlock(bs, i, d2) = bs
             /\ Cells(Shifted(bs[i + 1], d2)) \subseteq GridCells

\* blocks with the positions of the pieces at list places a and b exchanged
Exchange(blocks, a, b) ==
  [blocks EXCEPT ![a] = [@ EXCEPT !.x = blocks[b].x, !.y = blocks[b].y],
                 ![b] = [@ EXCEPT !.x = blocks[a].x, !.y = blocks[a].y]]

\* the pairs of list places that hold two pieces of the same kind
SameKindPairs(blocks) ==
  {p \in (1..Len(blocks)) \X (1..Len(blocks)) :
     p[1] < p[2] /\ blocks[p[1]].type = blocks[p[2]].type}

\* a board without the identity of its pieces: which kind stands where
PositionsByKind(blocks) ==
  {<<blocks[j].type, blocks[j].x, blocks[j].y>> : j \in 1..Len(blocks)}

\* C13 (the key ignores piece identity): exchanging the positions of two
\* pieces of the same kind of a valid queued board gives a board with the
\* same key, which is therefore visited; and no two queued boards differ
\* only by which piece of a kind stands where.
C13_KeyIgnoresIdentity ==
  /\ \A j \in 1..Len(queue) :
       ValidBoard(queue[j].blocks) =>
         \A p \in SameKindPairs(queue[j].blocks) :
           LET other == Exchange(queue[j].blocks, p[1], p[2])
           IN  /\ encodeState(other) = encodeState(queue[j].blocks)
               /\ SetHas(visited, encodeState(other))
  /\ ValidBoard(initialBlocks) =>
       Cardinality({PositionsByKind(queue[j].blocks) : j \in 1..Len(queue)})
         = Len(queue)

\* the node being expanded has a legal move to a board that is no queued
\* board but is a queued board with two pieces of a kind exchanged
C13_Witness ==
  /\ pc = "loop" /\ head < Len(queue) /\ ValidBoard(initialBlocks)
  /\ \E k \in 1..Len(LegalMoves(queue[head + 1].blocks)) :
       LET m  == LegalMoves(queue[head + 1].blocks)[k]
           nb == ApplyMove(queue[head + 1].blocks, m.blockIndex, m.direction)
       IN  /\ \A j \in 1..Len(queue) : queue[j].blocks # nb
           /\ \E j \in 1..Len(queue) :
                \E p \in SameKindPairs(nb) :
                  Exchange(nb, p[1], p[2]) = queue[j].blocks

\* breadth-first levels over positions with isSolved as the goal: the least
\* d <= limit such that a position d moves away is solved, or -1
RECURSIVE SolvedFrom(_, _, _, _)
SolvedFrom(frontier, seen, d, limit) ==
  IF \E b \in frontier : isSolved(b) THEN d
  ELSE IF frontier = {} \/ d >= limit THEN -1
  ELSE LET next == (UNION {Successors(b) : b \in frontier}) \ seen
       IN  SolvedFrom(next, seen \cup next, d + 1, limit)

SolvedLen(blocks) == SolvedFrom({blocks}, {blocks}, 0, Unbounded)

\* C14 (deduplication by key loses nothing): for a valid input board and a
\* valid board over the same piece list with the same key (two pieces of a
\* kind exchanged), isSolved gives the same answer on both and the
\* shortest solutions from both have the same length.
C14_DedupLosesNothing ==
  (pc = "loop" /\ head = 0 /\ ValidBoard(initialBlocks)) =>
     \A p \in SameKindPairs(initialBlocks) :
       LET other == Exchange(initialBlocks, p[1], p[2])
       IN  (ValidBoard(other)
            /\ encodeState(other) = encodeState(initialBlocks)) =>
              /\ isSolved(other) = isSolved(initialBlocks)
              /\ SolvedLen(other) = SolvedLen(initialBlocks)

\* C15 (iteration budget): the number of nodes dequeued (head) never
\* exceeds MAX_ITERATIONS, and a call that exceeds the budget returns null.
C15_IterationBudget ==
  /\ head <= MAX_ITERATIONS
  /\ exceeded => (Done /\ returned = "null")

\* C16 (search-time board validity): when the input board is valid, every
\* state placed on the queue has all its pieces inside the grid, with the
\* dimensions of their kind, and no two of them on a common cell.
C16_QueuedStatesValid ==
  ValidBoard(initialBlocks) =>
    \A j \in 1..Len(queue) : ValidBoard(queue[j].blocks)

\* a search on a valid board of at least five pieces, two of them next to
\* each other, that has queued boards two moves away from the input
C16_Witness ==
  /\ pc = "loop" /\ ValidBoard(initialBlocks) /\ Len(initialBlocks) >= 5
  /\ Len(queue) >= 8
  /\ Len(queue[Len(queue)].path) = 2
  /\ \E i \in 0..(Len(initialBlocks) - 1), dir \in Direction :
       canMoveNoCollision(i, dir, initialBlocks) /\ ~canMove(i, dir, initialBlocks)

\* C17 (read-only input): no step of findSolution changes the caller's
\* array (its length, its elements or their order) or the type, x, y, width
\* or height of a Block object the array holds.
C17_ReadOnlyInput ==
  [][/\ callerBlocks' = callerBlocks
     /\ heap'.lists[callerBlocks] = heap.lists[callerBlocks]
     /\ \A j \in 1..Len(heap.lists[callerBlocks]) :
          heap'.objs[heap.lists[callerBlocks][j]]
            = heap.objs[heap.lists[callerBlocks][j]]]_vars

\* a call on two pieces that has returned a solution of two moves, after
\* writing moves into copies, with the caller's blocks as they were passed
C17_Witness ==
  /\ callerBlocks = 1 /\ Done /\ returned = "list" /\ Len(result) = 2
  /\ Len(initialBlocks) = 2
  /\ Len(heap.lists) > 4
  /\ Deref(heap, callerBlocks) = initialBlocks

\* the arrays map has built during the step
NewLists == (Len(heap.lists) + 1)..Len(heap'.lists)

\* the array at address l of the next heap is the array at address p with
\* block i moved by one cell in direction dir, nothing else different
MovedCopy(l, p, i, dir) ==
  LET new == heap'.lists[l]
      old == heap.lists[p]
  IN  /\ Len(new) = Len(old)
      /\ i + 1 \in 1..Len(old)
      /\ \A k \in 1..Len(old) :
           LET b == heap.objs[old[k]]
               c == heap'.objs[new[k]]
           IN  /\ c.type = b.type /\ c.width = b.width /\ c.height = b.height
               /\ c.x = b.x + (IF k = i + 1 THEN DeltaX(dir) ELSE 0)
               /\ c.y = b.y + (IF k = i + 1 THEN DeltaY(dir) ELSE 0)

\* C18 (published states are immutable): a turn of the loop leaves every
\* object and every array that existed before it as it was (the dequeued
\* parent, every queued state, the caller's blocks) and every queue entry
\* in place; every successor it generates is an array of objects that did
\* not exist before, shared with no other array, that differs from the
\* parent in one piece moved by one cell, with the same kind, width and
\* height for every piece; every entry it pushes is such a successor.
C18_PublishedImmutable ==
  [][(pc = "loop" /\ head' = head + 1) =>
       LET parent == queue[head + 1].blocks
       IN  /\ \A a \in 1..Len(heap.objs) : heap'.objs[a] = heap.objs[a]
           /\ \A l \in 1..Len(heap.lists) : heap'.lists[l] = heap.lists[l]
           /\ \A j \in 1..Len(queue) : queue'[j] = queue[j]
           /\ \A l \in NewLists :
                /\ \A k \in 1..Len(heap'.lists[l]) :
                     /\ heap'.lists[l][k] > Len(heap.objs)
                     /\ \A l2 \in 1..Len(heap'.lists) :
                          \A k2 \in 1..Len(heap'.lists[l2]) :
                            heap'.lists[l2][k2] = heap'.lists[l][k]
                              => (l2 = l /\ k2 = k)
                /\ \E i \in 0..(Len(heap.lists[parent]) - 1), dir \in Direction :
                     MovedCopy(l, parent, i, dir)
           /\ \A j \in (Len(queue) + 1)..Len(queue') :
                LET m == queue'[j].path[Len(queue'[j].path)]
                IN  /\ queue'[j].blocks \in NewLists
                    /\ MovedCopy(queue'[j].blocks, parent, m.blockIndex,
                                 m.direction)]_vars

\* a search on three pieces with the root and some of its successors
\* dequeued: successors were pushed, and others were dropped as visited
C18_Witness ==
  /\ callerBlocks = 1 /\ pc = "loop" /\ head >= 2
  /\ Len(initialBlocks) = 3
  /\ Len(queue) >= 4
  /\ Len(heap.lists) > Len(queue) + 1

\* C19 (termination): every call, whatever the board and maxDepth, reaches
\* its return ([], a move list or null).
C19_Termination == <>Done

\* a call with the default maxDepth that returned null after more than a
\* hundred dequeues, the frontier having emptied
C19_Witness ==
  /\ Done /\ returned = "null" /\ ~exceeded
  /\ maxDepth = DEFAULT_MAX_DEPTH /\ head > 100

\* C20 (unsolvable boards are ordinary results): a call on a valid board
\* from which no sequence of legal moves brings a King to the exit, a
\* board without a King and the empty list included, returns null.
C20_UnsolvableIsNull ==
  (Done /\ ValidBoard(initialBlocks) /\ ShortestLen(initialBlocks) = -1) =>
     (returned = "null" /\ result = <<>>)

\* a call on a valid board of two pieces without a King that has returned
\* null after the frontier emptied, more than a hundred dequeues later
C20_Witness ==
  /\ Done /\ ValidBoard(initialBlocks) /\ Len(initialBlocks) = 2
  /\ KingPositions(initialBlocks) = {}
  /\ ShortestLen(initialBlocks) = -1
  /\ returned = "null" /\ ~exceeded /\ head > 100

\* the call on the empty list has returned null
C20_WitnessEmpty ==
  Done /\ initialBlocks = <<>> /\ returned = "null"

\* C21 (invalid board is reported): a call on a board with two overlapping
\* pieces, a piece outside the grid or a piece whose dimensions are not
\* those of its kind ends with an invalid-board error, not with null or a
\* move list.
C21_InvalidBoardReported ==
  (Done /\ ~ValidBoard(initialBlocks)) => returned = "error"

C22_WitnessNull ==
  /\ Done /\ call2.pc = "done"
  /\ call2.initialBlocks = initialBlocks /\ call2.maxDepth = maxDepth
  /\ returned = "null" /\ call2.returned = "null" /\ head >= 2

\* the nodes of the queue not yet dequeued, from head to tail
Waiting == head + 1 .. Len(queue)

\* C26 (breadth-first level order): the path lengths of the waiting nodes
\* never decrease from head to tail and the tail's path is at most one move
\* longer than the head's; a step only appends to the queue and moves head
\* forward by at most one node, so nodes leave in the order they came in.
C26_LevelOrder ==
  /\ [](/\ \A j \in Waiting, l \in Waiting :
             j <= l => Len(queue[j].path) <= Len(queue[l].path)
        /\ \A j \in Waiting, l \in Waiting :
             Len(queue[l].path) <= Len(queue[j].path) + 1)
  /\ [][/\ Len(queue') >= Len(queue)
        /\ \A j \in 1..Len(queue) : queue'[j] = queue[j]
        /\ head' \in {head, head + 1}]_vars

\* a search with three nodes dequeued and at least three waiting, of two
\* levels
C26_Witness ==
  /\ pc = "loop" /\ head >= 3 /\ Len(queue) >= head + 3
  /\ Len(queue[Len(queue)].path) = Len(queue[head + 1].path) + 1
  /\ Len(queue[head + 1].path) >= 2

\* C27 (path consistency): for every node placed on the queue, the replay
\* of its path from the input board passes only legal moves and ends on
\* the node's blocks, piece by piece.
C27_PathConsistency ==
  \A j \in 1..Len(queue) :
    LET r == Replay(initialBlocks, queue[j].path)
    IN  r.ok /\ r.blocks = queue[j].blocks

\* a search on at least five pieces that has queued a node three moves
\* from the input, two different pieces having moved
C27_Witness ==
  /\ pc = "loop" /\ Len(initialBlocks) >= 5 /\ Len(queue) >= 8
  /\ LET p == queue[Len(queue)].path
     IN  /\ Len(p) = 3
         /\ p[1].blockIndex # p[3].blockIndex
         /\ Replay(initialBlocks, p).blocks = queue[Len(queue)].blocks

\* C28 (the key is injective up to exchange of pieces of a kind): when
\* the key of a valid board equals the key the call has computed for its
\* valid input board, the two boards have the same kinds on the same
\* top-left positions.
C28_KeyInjective ==
  (pc = "loop" /\ head = 0 /\ ValidBoard(initialBlocks)) =>
     \A other \in KeyBoards :
       (ValidBoard(other) /\ SetHas(visited, encodeState(other))) =>
          PositionsByKind(other) = PositionsByKind(initialBlocks)

\* the key of a board of four Verticals is computed, and another board of
\* the model, the same pieces in another list order, has this key
C28_Witness ==
  /\ pc = "loop" /\ head = 0 /\ ValidBoard(initialBlocks)
  /\ Len(initialBlocks) = 4
  /\ \E other \in KeyBoards :
       /\ other # initialBlocks
       /\ SetHas(visited, encodeState(other))
       /\ PositionsByKind(other) = PositionsByKind(initialBlocks)

\* the call moveBlock(direction, autoId) in the GameBoard u has no target,
\* a target no block has, or a target that would leave the grid or share a
\* cell with another block
MoveRejected(u, direction, autoId) ==
  LET targetId == IF autoId # -1 THEN autoId ELSE u.selectedBlockId
  IN  \/ targetId = -1
      \/ targetId \notin 0..(Len(u.blocks) - 1)
      \/ ~CellLegal(targetId, direction, u.blocks)

\* C29 (a rejected interactive move changes nothing): in every state of a
\* game, a call of moveBlock with no target, an unknown id, a move that
\* leaves the grid or a move onto another block leaves the board, the move
\* counter and the undo history as they are and schedules no onWin.
C29_RejectedMoveChangesNothing ==
  ui.screen = "game" =>
    \A direction \in Direction, autoId \in BlockIds \cup {-1} :
      MoveRejected(ui, direction, autoId) =>
        LET after == MoveBlockHandler(ui, direction, autoId)
        IN  /\ after.blocks = ui.blocks
            /\ after.moves = ui.moves
            /\ after.history = ui.history
            /\ after.timers = ui.timers

\* a swipe on an id no block has was rejected (nothing else selects this
\* id) after a move was applied, and in this state moves of the King and of
\* the Pawn are rejected at the border and at the other block
C29_Witness ==
  /\ ui.screen = "game"
  /\ ui.selectedBlockId = UnknownId
  /\ ui.moves = 1 /\ Len(ui.history) = 1 /\ ui.timers = <<>>
  /\ \E direction \in Direction :
       /\ FindIndex(ui.blocks, 0) = 0
       /\ ~(Cells(Shifted(ui.blocks[1], direction)) \subseteq GridCells)
  /\ \E direction \in Direction, i \in 0..1 :
       /\ Cells(Shifted(ui.blocks[i + 1], direction)) \subseteq GridCells
       /\ ~CellLegal(i, direction, ui.blocks)

\* C24 (the win flag matches the board): whenever hasWon of the App is
\* true, the King's top-left is at WIN_COORDS on the current board.
C24_WinFlagMatchesBoard ==
  (ui.screen = "game" /\ ui.hasWon) => KingAtGoal(ui.blocks)

\* C23 (auto-play keeps the board valid): every board a callback of the
\* replay interval of handleAutoSolve writes has all pieces inside the grid
\* and no two on one cell.
C23_AutoPlayKeepsBoardValid ==
  [][(ReplayInterval /\ ui'.blocks # ui.blocks) => ValidBoard(ui'.blocks)]_vars

\* a GameBoard just mounted for its level: the board of the level, no move
\* counted, no win, an empty history, and no timer of its own pending
FreshLevel(u) ==
  /\ u.blocks = GameLevels[u.difficulty]
  /\ u.moves = 0
  /\ ~u.hasWon
  /\ u.history = <<>>
  /\ \A k \in 1..Len(u.timers) : ~u.timers[k].mounted

\* C25 (a level change is clean): after changeDifficulty(d) the board is
\* LEVELS[d] with moves = 0 and hasWon = false, and while no player move
\* and no auto-play of the new GameBoard has followed, a callback of a
\* solve timeout or of a replay interval leaves the board and the move
\* counter as they are.
C25_LevelChangeClean ==
  [][/\ changeDifficulty => FreshLevel(ui')
     /\ (/\ ui.screen = "game" /\ ui.mounts > 1 /\ FreshLevel(ui)
         /\ (SolveTimeout \/ ReplayInterval))
        => (ui'.blocks = ui.blocks /\ ui'.moves = ui.moves)]_vars

\* C30 (undo is the inverse of a move): every move applied by the player
\* or by the replay adds one to the move counter and pushes the board and
\* the counter it found on the history, and an undo on a history that is
\* not empty pops its last entry and restores that board and counter, so
\* that n undos after n moves restore the state before the first of them.
C30_UndoInvertsMove ==
  [][/\ ((handleSwipe \/ handleKeyDown \/ ReplayInterval)
          /\ ui'.blocks # ui.blocks)
        => (/\ ui'.moves = ui.moves + 1
            /\ ui'.history = Append(ui.history, [blocks |-> ui.blocks,
                                                 moves |-> ui.moves]))
     /\ (handleUndo /\ ui.history # <<>>)
        => (/\ ui'.blocks = ui.history[Len(ui.history)].blocks
            /\ ui'.moves = ui.history[Len(ui.history)].moves
            /\ ui'.history = SubSeq(ui.history, 1, Len(ui.history) - 1))]_vars

====
